---- MODULE Spec2Model ----
(***************************************************************************)
(* A model of src/lib.rs: a Generator runs a body on a worker thread and   *)
(* hands the values the body yields to a consumer, one per call of next.   *)
(* The two sides share an atomic counter (next_count) and an mpsc channel. *)
(*                                                                         *)
(* Every action is one atomic step of one thread: one access to shared     *)
(* state (an atomic load, fetch_add, fetch_sub, a send, a recv, a drop, a  *)
(* thread's exit) together with the thread-local computation around it.    *)
(***************************************************************************)
EXTENDS Integers, Sequences, FiniteSets, TLC

\* ------------------------------------------------------------- bounds
\* The longest sequence of values a body yields.
MaxLen == 3
\* The longest sequence a yield_from source (an inner Generator, a plain
\* iterator) produces.
MaxNested == 2
\* The values emitted are 1..MaxVal.
MaxVal == 2
\* The consumer calls next at most (number of values of the body) +
\* ExtraPulls times.
ExtraPulls == 2

Values == 1..MaxVal

\* The generators: the one the consumer holds, and the one its body may
\* create and hand to yield_from (tests::yield_from).
Gens == {"outer", "inner"}

\* The threads that call yield: the worker of each generator, and a thread
\* the outer body may spawn in a scope to call yield on the same Yielder.
Threads == Gens \cup {"helper"}

\* The generator whose Yielder thread t calls yield on.
YielderOf(t) == IF t = "helper" THEN "outer" ELSE t

VARIABLES
    body,        \* the body given to Generator::new for the outer generator
    next_count,  \* [g] Arc<AtomicU64>; a negative n stands for 2^64 + n
    channel,     \* [g] the values sent and not yet received
    sender,      \* [g] TRUE while the Sender (the Yielder) is not dropped
    receiver,    \* [g] TRUE while the Receiver (the Generator) is not dropped
    coroutine,   \* [g] Option<JoinHandle<()>>: "Some" or "None"
    finished,    \* [g] JoinHandle::is_finished
    result,      \* [g] the thread's result: "Ok", or "Err" after a panic
    npc,         \* [g] where the caller of next(g) is inside next
    pulled,      \* [g] history: what the calls of next(g) returned
    pc,          \* [t] where worker thread t is
    prog,        \* [t] what is left of the body of t
    cur,         \* [t] the value given to the yield in progress
    iter,        \* [t] what is left of the iterator of yield_from
    emitted,     \* [g] history: the values passed to Yielder::yield
    nadds,       \* [g] history: the number of fetch_add
    nsent        \* [g] history: the number of successful sends

genVars  == <<next_count, channel, sender, receiver, coroutine, finished, result>>
nextVars == <<npc, pulled>>
thrVars  == <<pc, prog, cur, iter>>
histVars == <<emitted, nadds, nsent>>
vars     == <<body, genVars, nextVars, thrVars, histVars>>

\* ------------------------------------------------------ values, bodies
\* Option<T> as next returns it, and the panic of join().unwrap().
Some(v)  == [tag |-> "Some", val |-> v]
NoneV    == [tag |-> "None", val |-> 0]
PanicV   == [tag |-> "Panic", val |-> 0]

\* The statements of a body.
Yield(v)        == [op |-> "yield", val |-> v, src |-> <<>>]
YieldFrom(s)    == [op |-> "yield_from", val |-> 0, src |-> s]
YieldFromGen(s) == [op |-> "yield_from_gen", val |-> 0, src |-> s]
PanicStmt       == [op |-> "panic", val |-> 0, src |-> <<>>]
\* thread::scope(|s| { s.spawn(|| <yield each value of h>); ... }): the spawn
\* of the helper thread, and the end of the scope, which waits for it.
Spawn(h)        == [op |-> "spawn", val |-> 0, src |-> h]
ScopeEnd        == [op |-> "scope_end", val |-> 0, src |-> <<>>]

SeqsUpTo(n) == UNION {[1..k -> Values] : k \in 0..n}

\* A body that yields the values of s one after the other, then returns.
BodyOf(s) == [i \in 1..Len(s) |-> Yield(s[i])]

\* The values a body passes to yield when it runs to its end or its panic.
RECURSIVE Emits(_)
Emits(p) ==
    IF p = <<>> \/ Head(p).op = "panic" THEN <<>>
    ELSE IF Head(p).op = "yield" THEN <<Head(p).val>> \o Emits(Tail(p))
    ELSE Head(p).src \o Emits(Tail(p))

\* The consumer stops calling next after this many calls.
PullCap == Len(Emits(body)) + ExtraPulls

\* ------------------------------------------------- the code's pieces
\* AtomicU64::fetch_add(1) and fetch_sub(1), in the signed view.
\* The mutant of FetchAdd: one pull registers two requests.
FetchAddTwice(c) == c + 2
FetchAdd(c) == c + 1
\* The mutant of FetchSub: the emit forgets to take the pull request.
FetchSubForgotten(c) == c
FetchSub(c) == c - 1

\* The mutant of SpinWait: the emit does not wait for a pull request.
SpinWaitNever(c) == FALSE
\* The mutant of SpinWait: the emit waits for a second pull request.
SpinWaitTwo(c) == c <= 1
\* The condition of the while loop of yield.
SpinWait(c) == c = 0

\* The mutant of RecvResult: try_recv, which does not wait for the sender.
RecvResultTry(buf, alive) ==
    IF buf # <<>> THEN Some(Head(buf)) ELSE NoneV
\* The mutant of RecvResult: recv().unwrap(), which panics on closure.
RecvResultUnwrap(buf, alive) ==
    IF buf # <<>> THEN Some(Head(buf))
    ELSE IF ~alive THEN PanicV ELSE [tag |-> "Blocked", val |-> 0]
\* receiver.recv().ok(): the oldest value sent; None once the channel is
\* empty and the sender dropped; blocked otherwise.
RecvResult(buf, alive) ==
    IF buf # <<>> THEN Some(Head(buf))
    ELSE IF ~alive THEN NoneV ELSE [tag |-> "Blocked", val |-> 0]

\* The mutant of JoinUnwrap: join().ok(), which swallows the worker's panic.
JoinUnwrapOk(res) == NoneV
\* join().unwrap(); return None: panics when the worker panicked.
JoinUnwrap(res) == IF res = "Err" THEN PanicV ELSE NoneV

\* The mutant of IsFinished: the finished check is never true.
IsFinishedNever(g) == FALSE
\* The mutant of IsFinished: a closed channel is taken for a finished worker.
IsFinishedOnClose(g) == ~sender[g]
\* coroutine.is_finished(): the thread has ended.
IsFinished(g) == finished[g]

\* sender.send(value): fails once the receiver is dropped.
SendResult(alive) == IF alive THEN "Ok" ELSE "Err"

\* The mutant of ChannelPush: the value is sent twice.
ChannelPushTwice(buf, v) == Append(Append(buf, v), v)
\* What a successful send does to the channel: the value is queued last.
ChannelPush(buf, v) == Append(buf, v)

\* ---------------------------------------------------------------- Init
\* Generator::new: the counter at 0, an empty channel, the worker spawned.
InitWith(b) ==
    /\ body = b
    /\ next_count = [g \in Gens |-> 0]
    /\ channel = [g \in Gens |-> <<>>]
    /\ sender = [g \in Gens |-> g = "outer"]
    /\ receiver = [g \in Gens |-> g = "outer"]
    /\ coroutine = [g \in Gens |-> IF g = "outer" THEN "Some" ELSE "None"]
    /\ finished = [g \in Gens |-> FALSE]
    /\ result = [g \in Gens |-> "Ok"]
    /\ npc = [g \in Gens |-> "idle"]
    /\ pulled = [g \in Gens |-> <<>>]
    /\ pc = [t \in Threads |-> IF t = "outer" THEN "run" ELSE "unborn"]
    /\ prog = [t \in Threads |-> IF t = "outer" THEN b ELSE <<>>]
    /\ cur = [t \in Threads |-> 0]
    /\ iter = [t \in Threads |-> <<>>]
    /\ emitted = [g \in Gens |-> <<>>]
    /\ nadds = [g \in Gens |-> 0]
    /\ nsent = [g \in Gens |-> 0]

\* A body that yields up to MaxLen values and returns (tests::iteration).
Init == \E s \in SeqsUpTo(MaxLen) : InitWith(BodyOf(s))

\* ------------------------------------------------------ Generator::next
\* What the return of next(g) does to its caller. The consumer records the
\* result. The outer worker, which calls next on the inner generator in the
\* for loop of yield_from, yields the value, leaves the loop on None, and
\* unwinds on a panic.
ReturnFromNext(g, r, path) ==
    /\ pulled' = [pulled EXCEPT ![g] = Append(@, [ret |-> r, path |-> path])]
    /\ npc' = [npc EXCEPT ![g] = "idle"]
    /\ IF g = "inner"
       THEN /\ pc' = [pc EXCEPT !["outer"] =
                        CASE r.tag = "Some" -> "load"
                          [] r.tag = "None" -> "drop_iter"
                          [] OTHER -> "unwind"]
            /\ cur' = [cur EXCEPT !["outer"] = IF r.tag = "Some" THEN r.val ELSE @]
            /\ emitted' = [emitted EXCEPT !["outer"] =
                             IF r.tag = "Some" THEN Append(@, r.val) ELSE @]
       ELSE UNCHANGED <<pc, cur, emitted>>

\* The caller of next(g) is ready to call it: the consumer holds the outer
\* generator and has calls left; the outer worker is at the head of the for
\* loop over the inner generator.
CanCall(g) ==
    IF g = "outer"
    THEN receiver["outer"] /\ Len(pulled["outer"]) < PullCap
    ELSE pc["outer"] = "for_gen"

\* let coroutine = self.coroutine.as_ref()?;
NextCall(g) ==
    /\ npc[g] = "idle"
    /\ CanCall(g)
    /\ IF coroutine[g] = "None"
       THEN /\ ReturnFromNext(g, NoneV, "absent")
            /\ UNCHANGED <<body, genVars, prog, iter, nadds, nsent>>
       ELSE /\ npc' = [npc EXCEPT ![g] = "is_finished"]
            /\ pc' = [pc EXCEPT !["outer"] = IF g = "inner" THEN "pulling" ELSE @]
            /\ UNCHANGED <<body, genVars, pulled, prog, cur, iter, histVars>>

\* if coroutine.is_finished() { self.coroutine.take().unwrap().join().unwrap();
\* return None; }
NextIsFinished(g) ==
    /\ npc[g] = "is_finished"
    /\ IF IsFinished(g)
       THEN /\ coroutine' = [coroutine EXCEPT ![g] = "None"]
            /\ ReturnFromNext(g, JoinUnwrap(result[g]), "finished")
            /\ UNCHANGED <<body, next_count, channel, sender, receiver, finished,
                           result, prog, iter, nadds, nsent>>
       ELSE /\ npc' = [npc EXCEPT ![g] = "fetch_add"]
            /\ UNCHANGED <<body, genVars, pulled, thrVars, histVars>>

\* self.next_count.fetch_add(1, Ordering::AcqRel);
NextFetchAdd(g) ==
    /\ npc[g] = "fetch_add"
    /\ next_count' = [next_count EXCEPT ![g] = FetchAdd(@)]
    /\ nadds' = [nadds EXCEPT ![g] = @ + 1]
    /\ npc' = [npc EXCEPT ![g] = "recv"]
    /\ UNCHANGED <<body, channel, sender, receiver, coroutine, finished, result,
                   pulled, thrVars, emitted, nsent>>

\* self.receiver.recv().ok()
NextRecv(g) ==
    /\ npc[g] = "recv"
    /\ LET r == RecvResult(channel[g], sender[g]) IN
        /\ r.tag # "Blocked"
        /\ channel' = [channel EXCEPT ![g] = IF @ # <<>> THEN Tail(@) ELSE @]
        /\ ReturnFromNext(g, r, "recv")
    /\ UNCHANGED <<body, next_count, sender, receiver, coroutine, finished, result,
                   prog, iter, nadds, nsent>>

\* ------------------------------------------------------- Yielder::yield
\* The body calls y.yield(v).
YieldCall(t) ==
    /\ pc[t] = "run"
    /\ prog[t] # <<>>
    /\ Head(prog[t]).op = "yield"
    /\ cur' = [cur EXCEPT ![t] = Head(prog[t]).val]
    /\ emitted' = [emitted EXCEPT ![YielderOf(t)] = Append(@, Head(prog[t]).val)]
    /\ pc' = [pc EXCEPT ![t] = "load"]
    /\ UNCHANGED <<body, genVars, nextVars, prog, iter, nadds, nsent>>

\* while self.next_count.load(Ordering::Acquire) == 0
Load(t) ==
    /\ pc[t] = "load"
    /\ pc' = [pc EXCEPT ![t] = IF SpinWait(next_count[YielderOf(t)]) THEN "yield_now" ELSE "fetch_sub"]
    /\ UNCHANGED <<body, genVars, nextVars, prog, cur, iter, histVars>>

\* thread::yield_now();
YieldNow(t) ==
    /\ pc[t] = "yield_now"
    /\ pc' = [pc EXCEPT ![t] = "load"]
    /\ UNCHANGED <<body, genVars, nextVars, prog, cur, iter, histVars>>

\* self.next_count.fetch_sub(1, Ordering::AcqRel);
FetchSubStep(t) ==
    /\ pc[t] = "fetch_sub"
    /\ next_count' = [next_count EXCEPT ![YielderOf(t)] = FetchSub(@)]
    /\ pc' = [pc EXCEPT ![t] = "send"]
    /\ UNCHANGED <<body, channel, sender, receiver, coroutine, finished, result,
                   nextVars, prog, cur, iter, histVars>>

\* Where the body goes on after a yield has returned: to its next statement,
\* or to the head of the for loop of yield_from.
AfterYield(t) ==
    CASE Head(prog[t]).op = "yield_from" -> "for"
      [] Head(prog[t]).op = "yield_from_gen" -> "for_gen"
      [] OTHER -> "run"

\* self.sender.send(value).unwrap();
Send(t) ==
    /\ pc[t] = "send"
    /\ IF SendResult(receiver[YielderOf(t)]) = "Ok"
       THEN /\ channel' = [channel EXCEPT ![YielderOf(t)] = ChannelPush(@, cur[t])]
            /\ nsent' = [nsent EXCEPT ![YielderOf(t)] = @ + 1]
            /\ pc' = [pc EXCEPT ![t] = AfterYield(t)]
            /\ prog' = [prog EXCEPT ![t] = IF Head(@).op = "yield" THEN Tail(@) ELSE @]
       ELSE /\ pc' = [pc EXCEPT ![t] = "unwind"]
            /\ UNCHANGED <<channel, nsent, prog>>
    /\ UNCHANGED <<body, next_count, sender, receiver, coroutine, finished, result,
                   nextVars, cur, iter, emitted, nadds>>

\* ------------------------------------------------------------ the worker
\* The body returns: the Yielder it owns is dropped, which closes the channel.
Return(t) ==
    /\ pc[t] = "run"
    /\ prog[t] = <<>>
    /\ sender' = [sender EXCEPT ![t] = FALSE]
    /\ pc' = [pc EXCEPT ![t] = "exiting"]
    /\ UNCHANGED <<body, next_count, channel, receiver, coroutine, finished, result,
                   nextVars, prog, cur, iter, histVars>>

\* The thread stores its result and ends: is_finished is true from here on.
Exit(t) ==
    /\ pc[t] = "exiting"
    /\ finished' = [finished EXCEPT ![t] = TRUE]
    /\ pc' = [pc EXCEPT ![t] = "finished"]
    /\ UNCHANGED <<body, next_count, channel, sender, receiver, coroutine, result,
                   nextVars, prog, cur, iter, histVars>>

\* A statement of the body panics.
Panic(t) ==
    /\ pc[t] = "run"
    /\ prog[t] # <<>>
    /\ Head(prog[t]).op = "panic"
    /\ pc' = [pc EXCEPT ![t] = "unwind"]
    /\ UNCHANGED <<body, genVars, nextVars, prog, cur, iter, histVars>>

\* The panic unwinds the body: what it owns is dropped, the Yielder (which
\* closes the channel) and the inner Generator the outer body may hold; the
\* thread's result is the panic.
Unwind(t) ==
    /\ pc[t] = "unwind"
    /\ sender' = [sender EXCEPT ![t] = FALSE]
    /\ result' = [result EXCEPT ![t] = "Err"]
    /\ receiver' = [receiver EXCEPT !["inner"] = IF t = "outer" THEN FALSE ELSE @]
    /\ channel' = [channel EXCEPT !["inner"] = IF t = "outer" THEN <<>> ELSE @]
    /\ pc' = [pc EXCEPT ![t] = "exiting"]
    /\ UNCHANGED <<body, next_count, coroutine, finished, nextVars, prog, cur, iter,
                   histVars>>

\* ------------------------------------------------------------ yield_from
\* y.yield_from(Generator::new(|y2| ...)): the argument is evaluated first.
\* Generator::new sets the counter to 0, creates the channel and spawns the
\* worker; the for loop of yield_from then starts.
YieldFromGenCall(t) ==
    /\ pc[t] = "run"
    /\ prog[t] # <<>>
    /\ Head(prog[t]).op = "yield_from_gen"
    /\ next_count' = [next_count EXCEPT !["inner"] = 0]
    /\ channel' = [channel EXCEPT !["inner"] = <<>>]
    /\ sender' = [sender EXCEPT !["inner"] = TRUE]
    /\ receiver' = [receiver EXCEPT !["inner"] = TRUE]
    /\ coroutine' = [coroutine EXCEPT !["inner"] = "Some"]
    /\ pc' = [pc EXCEPT ![t] = "for_gen", !["inner"] = "run"]
    /\ prog' = [prog EXCEPT !["inner"] = BodyOf(Head(prog[t]).src)]
    /\ UNCHANGED <<body, finished, result, nextVars, cur, iter, histVars>>

\* The for loop over the inner Generator has ended on None: the Generator,
\* moved into yield_from, is dropped there, and the body goes on.
DropIter(t) ==
    /\ pc[t] = "drop_iter"
    /\ receiver' = [receiver EXCEPT !["inner"] = FALSE]
    /\ channel' = [channel EXCEPT !["inner"] = <<>>]
    /\ prog' = [prog EXCEPT ![t] = Tail(@)]
    /\ pc' = [pc EXCEPT ![t] = "run"]
    /\ UNCHANGED <<body, next_count, sender, coroutine, finished, result, nextVars,
                   cur, iter, histVars>>

\* y.yield_from(0..n): the for loop starts on a plain iterator.
YieldFromCall(t) ==
    /\ pc[t] = "run"
    /\ prog[t] # <<>>
    /\ Head(prog[t]).op = "yield_from"
    /\ iter' = [iter EXCEPT ![t] = Head(prog[t]).src]
    /\ pc' = [pc EXCEPT ![t] = "for"]
    /\ UNCHANGED <<body, genVars, nextVars, prog, cur, histVars>>

\* for i in iter { self.yield(i); }: the next element, or the end of the loop.
ForNext(t) ==
    /\ pc[t] = "for"
    /\ IF iter[t] = <<>>
       THEN /\ prog' = [prog EXCEPT ![t] = Tail(@)]
            /\ pc' = [pc EXCEPT ![t] = "run"]
            /\ UNCHANGED <<cur, iter, emitted>>
       ELSE /\ cur' = [cur EXCEPT ![t] = Head(iter[t])]
            /\ iter' = [iter EXCEPT ![t] = Tail(@)]
            /\ emitted' = [emitted EXCEPT ![t] = Append(@, Head(iter[t]))]
            /\ pc' = [pc EXCEPT ![t] = "load"]
            /\ UNCHANGED prog
    /\ UNCHANGED <<body, genVars, nextVars, nadds, nsent>>

\* --------------------------------------------------- a shared &Yielder
\* s.spawn(|| ...): the body starts a scoped thread that borrows the Yielder
\* and yields the values of the statement.
SpawnCall(t) ==
    /\ pc[t] = "run"
    /\ prog[t] # <<>>
    /\ Head(prog[t]).op = "spawn"
    /\ pc' = [pc EXCEPT !["helper"] = "run"]
    /\ prog' = [prog EXCEPT !["helper"] = BodyOf(Head(prog[t]).src), ![t] = Tail(@)]
    /\ UNCHANGED <<body, genVars, nextVars, cur, iter, histVars>>

\* The closure of the scoped thread returns: the thread ends. It only
\* borrowed the Yielder, which stays with the body.
HelperEnd ==
    /\ pc["helper"] = "run"
    /\ prog["helper"] = <<>>
    /\ pc' = [pc EXCEPT !["helper"] = "ended"]
    /\ UNCHANGED <<body, genVars, nextVars, prog, cur, iter, histVars>>

\* The end of thread::scope: the body waits for the scoped thread to end.
ScopeEndWait(t) ==
    /\ pc[t] = "run"
    /\ prog[t] # <<>>
    /\ Head(prog[t]).op = "scope_end"
    /\ pc["helper"] = "ended"
    /\ prog' = [prog EXCEPT ![t] = Tail(@)]
    /\ UNCHANGED <<body, genVars, nextVars, pc, cur, iter, histVars>>

\* ------------------------------------------------------ drop(Generator)
\* The consumer drops the Generator between two calls of next: the Receiver
\* is dropped with what the channel holds, and the JoinHandle, which detaches
\* the worker.
DropGenerator ==
    /\ npc["outer"] = "idle"
    /\ receiver["outer"]
    /\ receiver' = [receiver EXCEPT !["outer"] = FALSE]
    /\ channel' = [channel EXCEPT !["outer"] = <<>>]
    /\ UNCHANGED <<body, next_count, sender, coroutine, finished, result, nextVars,
                   thrVars, histVars>>

\* -------------------------------------------------------- specifications
\* The steps of a worker whose body yields and returns.
Worker(t) ==
    \/ YieldCall(t)
    \/ Load(t)
    \/ YieldNow(t)
    \/ FetchSubStep(t)
    \/ Send(t)
    \/ Return(t)
    \/ Exit(t)

\* The steps of the consumer inside next.
Consumer ==
    \/ NextCall("outer")
    \/ NextIsFinished("outer")
    \/ NextFetchAdd("outer")
    \/ NextRecv("outer")

\* One generator, a body that yields and returns, a consumer that calls next.
Next ==
    \/ Worker("outer")
    \/ Consumer

Spec == Init /\ [][Next]_vars

\* The same under fair scheduling of the two threads.
FairSpec == Spec /\ WF_vars(Worker("outer")) /\ WF_vars(Consumer)

\* A body that yields up to MaxLen values and then returns or panics.
InitPanic ==
    \E s \in SeqsUpTo(MaxLen), p \in BOOLEAN :
        InitWith(IF p THEN BodyOf(s) \o <<PanicStmt>> ELSE BodyOf(s))

NextPanic ==
    \/ Worker("outer")
    \/ Panic("outer")
    \/ Unwind("outer")
    \/ Consumer

PanicSpec == InitPanic /\ [][NextPanic]_vars

\* The consumer may drop the Generator; the worker is scheduled fairly.
NextDrop ==
    \/ Worker("outer")
    \/ Consumer
    \/ DropGenerator

DropSpec == Init /\ [][NextDrop]_vars /\ WF_vars(Worker("outer"))

\* tests::yield_from: the body yields from an inner Generator, whose body
\* yields the values of a, and then from a plain iterator over b.
InitNested ==
    \E a \in SeqsUpTo(MaxNested), b \in SeqsUpTo(MaxNested) :
        InitWith(<<YieldFromGen(a), YieldFrom(b)>>)

\* The steps of the outer worker inside next on the inner generator.
InnerConsumer ==
    \/ NextCall("inner")
    \/ NextIsFinished("inner")
    \/ NextFetchAdd("inner")
    \/ NextRecv("inner")

NextNested ==
    \/ Worker("outer")
    \/ YieldFromGenCall("outer")
    \/ YieldFromCall("outer")
    \/ ForNext("outer")
    \/ DropIter("outer")
    \/ InnerConsumer
    \/ Worker("inner")
    \/ Consumer

NestedSpec == InitNested /\ [][NextNested]_vars

\* The body spawns a scoped thread that yields the values of h on the
\* Yielder the body itself yields the values of s on.
InitShared ==
    \E s \in SeqsUpTo(MaxNested), h \in SeqsUpTo(MaxNested) :
        InitWith(<<Spawn(h)>> \o BodyOf(s) \o <<ScopeEnd>>)

\* The steps of the scoped thread.
Helper ==
    \/ YieldCall("helper")
    \/ Load("helper")
    \/ YieldNow("helper")
    \/ FetchSubStep("helper")
    \/ Send("helper")
    \/ HelperEnd

NextShared ==
    \/ Worker("outer")
    \/ SpawnCall("outer")
    \/ ScopeEndWait("outer")
    \/ Helper
    \/ Consumer

SharedSpec == InitShared /\ [][NextShared]_vars

\* ----------------------------------------------------------- the claims
\* What the consumer's calls of next have returned so far.
Pulls == pulled["outer"]

\* The values of the calls so far that returned Some, in order.
RECURSIVE SomeValues(_)
SomeValues(h) ==
    IF h = <<>> THEN <<>>
    ELSE IF Head(h).ret.tag = "Some" THEN <<Head(h).ret.val>> \o SomeValues(Tail(h))
    ELSE SomeValues(Tail(h))

\* The worker is inside Yielder::yield.
InEmit(t) == pc[t] \in {"load", "yield_now", "fetch_sub", "send"}

\* C1: for a body that emits v1..vn and returns, the calls of next return
\* Some(v1), ..., Some(vn) in that order and None from then on: the i-th
\* call returns Some(vi) when i <= n and None when i > n.
C1_PullsFollowBody ==
    \A i \in 1..Len(Pulls) :
        Pulls[i].ret = IF i <= Len(body) THEN Some(body[i].val) ELSE NoneV

\* C1's case: a body of two values or more, all pulled, then None.
C1_Witness ==
    /\ Len(body) >= 2
    /\ Len(Pulls) = Len(body) + 1
    /\ Pulls[Len(Pulls)].ret = NoneV

\* C2: the values returned so far by next are a prefix of the values passed
\* so far to yield: the N-th successful pull returns the N-th emitted value.
C2_PulledPrefixOfEmitted ==
    LET pv == SomeValues(Pulls) IN
        /\ Len(pv) <= Len(emitted["outer"])
        /\ \A i \in 1..Len(pv) : pv[i] = emitted["outer"][i]

\* C2's case: two different values pulled while the body is in a third emit
\* or has gone on.
C2_Witness ==
    /\ Len(SomeValues(Pulls)) >= 2
    /\ SomeValues(Pulls)[1] # SomeValues(Pulls)[2]
    /\ npc["outer"] = "recv"

\* C5: the values sent are at most the pull requests registered; a value is
\* sent, and the channel holds a value, only while a pull waits in recv; the
\* channel never holds more than one value.
C5_SendsBoundedByPulls ==
    /\ nsent["outer"] <= nadds["outer"]
    /\ Len(channel["outer"]) <= 1
    /\ pc["outer"] \in {"fetch_sub", "send"} => npc["outer"] = "recv"
    /\ channel["outer"] # <<>> => npc["outer"] = "recv"
    /\ Pulls = <<>> /\ npc["outer"] = "idle" => nsent["outer"] = 0

\* C5's case: the second value sent is in the channel, not yet received.
C5_Witness ==
    /\ nsent["outer"] = 2
    /\ Len(channel["outer"]) = 1

\* C7: for a body that emits nothing, the first call of next returns None,
\* by the finished check or by the channel closing while it waits.
C7_EmptyBodyFirstPullNone ==
    body = <<>> /\ Len(Pulls) >= 1 =>
        /\ Pulls[1].ret = NoneV
        /\ Pulls[1].path \in {"finished", "recv"}

\* C7's case: the first pull registered a request and saw the channel close.
C7_Witness ==
    /\ body = <<>>
    /\ Len(Pulls) = 1
    /\ Pulls[1].path = "recv"
    /\ next_count["outer"] = 1

\* C8 as stated: when a call of next has returned None, the worker has been
\* joined and the join handle is None.
C8_NoneMeansJoined ==
    npc["outer"] = "idle" /\ Pulls # <<>> /\ Pulls[Len(Pulls)].ret = NoneV =>
        coroutine["outer"] = "None"

\* C3 as stated: once a call of next has returned None, every later call
\* returns None.
C3_Fused ==
    \A i \in 1..Len(Pulls) : \A j \in i..Len(Pulls) :
        Pulls[i].ret = NoneV => Pulls[j].ret = NoneV

\* C9: when the body has panicked, the call of next that joins the worker
\* panics; it does not return None.
C9_JoinPropagatesPanic ==
    \A i \in 1..Len(Pulls) :
        Pulls[i].path = "finished" =>
            Pulls[i].ret = IF result["outer"] = "Err" THEN PanicV ELSE NoneV

\* C9's case: the body yielded a value and panicked, and a call of next
\* joined the worker.
C9_Witness ==
    /\ result["outer"] = "Err"
    /\ Len(body) >= 2
    /\ Pulls # <<>>
    /\ Pulls[Len(Pulls)].path = "finished"
    /\ coroutine["outer"] = "None"

\* C4: under fair scheduling every started call of next returns and every
\* started emit completes (its value is sent).
C4_NoDeadlock ==
    /\ (npc["outer"] # "idle") ~> (npc["outer"] = "idle")
    /\ \A k \in 1..MaxLen :
        (Len(emitted["outer"]) = k) ~> (nsent["outer"] >= k)

\* C4's case: both sides wait, the pull in recv and the emit in its spin.
C4_Witness ==
    /\ npc["outer"] = "recv"
    /\ pc["outer"] = "yield_now"
    /\ Len(emitted["outer"]) = 2

\* C10 as stated: once the Generator is dropped, an emit in progress or
\* performed later ends with a failed send, which aborts the worker.
C10_EmitAfterDropFails ==
    (~receiver["outer"] /\ InEmit("outer")) ~> (result["outer"] = "Err")

\* C6: a body that calls yield_from on an inner Generator producing A and
\* then yield_from on B makes next return the values of A, then those of B,
\* then None.
C6_YieldFromConcat ==
    LET ab == body[1].src \o body[2].src IN
        \A i \in 1..Len(Pulls) :
            Pulls[i].ret = IF i <= Len(ab) THEN Some(ab[i]) ELSE NoneV

\* C6's case: A and B both hold values, something of each differs, and the
\* consumer has pulled them all and the None.
C6_Witness ==
    /\ body[1].src # <<>>
    /\ body[2].src # <<>>
    /\ body[1].src # body[2].src
    /\ Len(Pulls) = Len(body[1].src) + Len(body[2].src) + 1
    /\ Pulls[Len(Pulls)].ret = NoneV
    /\ Pulls[Len(Pulls)].path = "recv"

\* C11: once the consumer has dropped the Generator while the body still
\* has an emit to perform, the worker never terminates: the counter stays 0
\* and the worker stays in the spin of that emit (or before it), never at
\* fetch_sub, at send, or at its end.
C11_DroppedWorkerSpins ==
    ~receiver["outer"] /\ prog["outer"] # <<>> =>
        /\ next_count["outer"] = 0
        /\ pc["outer"] \in {"run", "load", "yield_now"}

\* C11's case: the Generator was dropped after a pull, and the worker spins
\* in its next emit.
C11_Witness ==
    /\ ~receiver["outer"]
    /\ Len(Pulls) >= 1
    /\ pc["outer"] = "yield_now"

\* C12 as stated: with one consumer and one producer the counter is 0 or 1
\* in every reachable state.
C12_CounterZeroOrOne == next_count["outer"] \in {0, 1}

\* C14: the channel is empty whenever the consumer is not inside a pull, and
\* whenever a pull finds the worker finished (before and after it returns
\* None without receiving).
C14_NothingStranded ==
    /\ npc["outer"] = "idle" => channel["outer"] = <<>>
    /\ npc["outer"] = "is_finished" /\ finished["outer"] => channel["outer"] = <<>>

\* C14's case: the body sent two values or more, and a pull found the worker
\* finished and returned None.
C14_Witness ==
    /\ nsent["outer"] >= 2
    /\ npc["outer"] = "idle"
    /\ Pulls # <<>>
    /\ Pulls[Len(Pulls)].path = "finished"

\* C17: with one thread calling yield the counter never wraps: it is never
\* below 0, and it is 1 or more whenever the emit is about to decrement it.
C17_NoWrap ==
    /\ next_count["outer"] >= 0
    /\ pc["outer"] = "fetch_sub" => next_count["outer"] >= 1

\* C17's case: an emit is about to decrement the counter for the second pull
\* request.
C17_Witness ==
    /\ pc["outer"] = "fetch_sub"
    /\ nsent["outer"] >= 1
    /\ next_count["outer"] = 1

\* C15: under fair scheduling the worker finishes, and a call of next made
\* once it has finished reaches the Terminal state (join handle None); the
\* handle changes only from Some to None, and only in the step of a call
\* whose finished check succeeds.
C15_ReachesTerminal ==
    /\ <>finished["outer"]
    /\ (finished["outer"] /\ npc["outer"] = "idle" /\ Len(Pulls) < PullCap)
         ~> (coroutine["outer"] = "None")
    /\ [][coroutine["outer"]' # coroutine["outer"] =>
            /\ npc["outer"] = "is_finished"
            /\ finished["outer"]
            /\ coroutine["outer"]' = "None"]_vars

\* C15's case: a call returned None on the closed channel with the handle
\* still Some, and the next call found the worker finished and joined it.
C15_Witness ==
    /\ Len(Pulls) >= 2
    /\ Pulls[Len(Pulls) - 1].ret = NoneV
    /\ Pulls[Len(Pulls) - 1].path = "recv"
    /\ Pulls[Len(Pulls)].path = "finished"
    /\ coroutine["outer"] = "None"

\* C18: next never blocks in join: the join is made only when the worker
\* thread has ended, and a call of next that has not reached recv can always
\* take its next step.
C18_JoinNeverBlocks ==
    /\ [][coroutine["outer"]' # coroutine["outer"] => pc["outer"] = "finished"]_vars
    /\ [](npc["outer"] \in {"is_finished", "fetch_add"} => ENABLED Consumer)
    /\ [](npc["outer"] = "recv" /\ ~ENABLED Consumer =>
            channel["outer"] = <<>> /\ sender["outer"])

\* C18's case: a call of next makes its finished check while the worker is
\* blocked in the spin of an emit.
C18_Witness ==
    /\ npc["outer"] = "is_finished"
    /\ pc["outer"] = "yield_now"
    /\ Len(Pulls) >= 1

\* The calls of next so far that went as far as recv.
RecvPulls == {i \in 1..Len(Pulls) : Pulls[i].path = "recv"}

\* C16: a call of next that returns None with the handle absent, or after
\* finding the worker finished, changes neither the counter nor the channel;
\* the counter is incremented only by the fetch_add step of a call whose
\* finished check failed, by exactly one, so that the requests registered
\* (those still in the counter and those the emits have taken) are as many as
\* the calls that went as far as recv.
C16_TerminalPullsNoEffect ==
    /\ [](next_count["outer"] + nsent["outer"]
            + (IF pc["outer"] = "send" THEN 1 ELSE 0)
          = Cardinality(RecvPulls) + (IF npc["outer"] = "recv" THEN 1 ELSE 0))
    /\ [][(Len(Pulls') = Len(Pulls) + 1
            /\ Pulls'[Len(Pulls')].path \in {"absent", "finished"}) =>
                /\ next_count' = next_count
                /\ channel' = channel
                /\ nadds' = nadds]_vars
    /\ [][next_count["outer"]' > next_count["outer"] =>
            /\ npc["outer"] = "fetch_add"
            /\ npc["outer"]' = "recv"
            /\ next_count["outer"]' = next_count["outer"] + 1]_vars

\* C16's case: the body has sent a value, one call has joined the finished
\* worker and a later one has found the handle absent.
C16_Witness ==
    /\ Len(Pulls) >= 3
    /\ nsent["outer"] >= 1
    /\ Pulls[Len(Pulls) - 1].path = "finished"
    /\ Pulls[Len(Pulls)].path = "absent"

\* C19: when the body panics, a call of next that has passed its finished
\* check returns None from recv on the closed channel and leaves the handle
\* Some; the panic is raised only by a call that finds the worker finished.
C19_PanicSeenAsNone ==
    /\ \A i \in 1..Len(Pulls) :
        /\ Pulls[i].ret = PanicV => Pulls[i].path = "finished"
        /\ Pulls[i].path = "recv" /\ i > Len(Emits(body)) => Pulls[i].ret = NoneV
    /\ npc["outer"] = "idle" /\ Pulls # <<>> /\ Pulls[Len(Pulls)].path = "recv" =>
        coroutine["outer"] = "Some"
    /\ npc["outer"] = "recv" /\ pc["outer"] \in {"unwind", "exiting"} =>
        coroutine["outer"] = "Some"

\* C19's case: the body yielded a value and panicked; one call returned None
\* from recv, and the next one found the worker finished and panicked.
C19_Witness ==
    /\ result["outer"] = "Err"
    /\ Len(body) >= 2
    /\ Len(Pulls) >= 2
    /\ Pulls[Len(Pulls) - 1].ret = NoneV
    /\ Pulls[Len(Pulls) - 1].path = "recv"
    /\ Pulls[Len(Pulls)].ret = PanicV

\* C13 as stated: emits made concurrently on the same Yielder each consume
\* their own pull request: the counter never goes below 0 (never wraps) and
\* at most one value is sent per registered pull.
C13_SharedEmitsSafe ==
    /\ next_count["outer"] >= 0
    /\ nsent["outer"] <= nadds["outer"]

====
